---- MODULE Spec2Model ----
(***************************************************************************)
(* Model of the flight-delay service: DelayModel (challenge/model.py) and  *)
(* the HTTP layer around it (challenge/api.py).                            *)
(*                                                                         *)
(* Conventions                                                             *)
(*  - A datetime string 'YYYY-MM-DD HH:MM:SS' is held in its parsed form,  *)
(*    the record datetime.strptime(s, '%Y-%m-%d %H:%M:%S') yields:         *)
(*    [year, month, day, hour, minute, second].  A datetime.time is the    *)
(*    record [hour, minute, second].  Python orders both field by field.   *)
(*  - A float holding seconds/60 is held exactly, as the fraction          *)
(*    [num |-> seconds, den |-> 60].                                       *)
(*  - A pandas bool/int cell is held as 0 or 1 (Python: True == 1).        *)
(*  - A call's outcome is [status |-> "returned", value |-> v] or          *)
(*    [status |-> "raised", error |-> <exception class>]; before the call  *)
(*    has run it is [status |-> "pending"].                                *)
(***************************************************************************)
EXTENDS Integers, Sequences, FiniteSets, TLC

VARIABLES
  _model,     \* DelayModel._model: None, or a LogisticRegression object
  dataset,    \* the file data/data.csv, as the process finds it
  call,       \* the call being made: its name and arguments
  ret,        \* what the last call returned or raised
  pc,         \* per thread, the line predict() is about to execute
  trainRuns   \* how many times data/data.csv was loaded for training

vars == <<_model, dataset, call, ret, pc, trainRuns>>

NoValue == [status |-> "pending"]

Returned(v) == [status |-> "returned", value |-> v]

Raised(e) == [status |-> "raised", error |-> e]

(***************************************************************************)
(* datetime: the library behaviour the code relies on.                     *)
(***************************************************************************)
IsLeap(y) == (y % 4 = 0) /\ ((y % 100 # 0) \/ (y % 400 = 0))

DaysInMonth(y, m) ==
  IF m = 2 THEN (IF IsLeap(y) THEN 29 ELSE 28)
  ELSE IF m \in {4, 6, 9, 11} THEN 30 ELSE 31

RECURSIVE DaysBeforeMonth(_, _)
DaysBeforeMonth(y, m) ==
  IF m = 1 THEN 0 ELSE DaysBeforeMonth(y, m - 1) + DaysInMonth(y, m - 1)

DaysBeforeYear(y) ==
  (y - 1) * 365 + ((y - 1) \div 4) - ((y - 1) \div 100) + ((y - 1) \div 400)

\* datetime.toordinal(): the proleptic Gregorian day number.
ToOrdinal(d) == DaysBeforeYear(d.year) + DaysBeforeMonth(d.year, d.month) + d.day

SecondsOfDay(t) == t.hour * 3600 + t.minute * 60 + t.second

\* datetime.time(): the time-of-day part.
TimeOf(d) == [hour |-> d.hour, minute |-> d.minute, second |-> d.second]

\* datetime.strptime("HH:MM", '%H:%M').time(): seconds default to 0.
HM(h, m) == [hour |-> h, minute |-> m, second |-> 0]

\* datetime.strptime(f'{day}-{Mon}-{year}', '%d-%b-%Y'): midnight of that day.
DMY(d, m, y) ==
  [year |-> y, month |-> m, day |-> d, hour |-> 0, minute |-> 0, second |-> 0]

\* time <= time
TimeLE(a, b) == SecondsOfDay(a) <= SecondsOfDay(b)

\* datetime <= datetime
DateTimeLE(a, b) ==
  \/ ToOrdinal(a) < ToOrdinal(b)
  \/ ToOrdinal(a) = ToOrdinal(b) /\ SecondsOfDay(a) <= SecondsOfDay(b)

\* (a - b).total_seconds()
TotalSeconds(a, b) ==
  (ToOrdinal(a) - ToOrdinal(b)) * 86400 + SecondsOfDay(a) - SecondsOfDay(b)

\* >= in place of >
FracGE(q, n) == q.num >= n * q.den

\* float > int, the float held as a fraction with a positive denominator
FracGT(q, n) == q.num > n * q.den

(***************************************************************************)
(* DelayModel's date helpers.                                              *)
(***************************************************************************)
_get_period_day(date) ==
  LET date_time      == TimeOf(date)
      morning_min    == HM(5, 0)
      morning_max    == HM(11, 59)
      afternoon_min  == HM(12, 0)
      afternoon_max  == HM(18, 59)
      evening_min    == HM(19, 0)
      evening_max    == HM(23, 59)
      night_min      == HM(0, 0)
      night_max      == HM(4, 59)
  IN  IF TimeLE(morning_min, date_time) /\ TimeLE(date_time, morning_max)
        THEN "mañana"
      ELSE IF TimeLE(afternoon_min, date_time) /\ TimeLE(date_time, afternoon_max)
        THEN "tarde"
      ELSE IF \/ TimeLE(evening_min, date_time) /\ TimeLE(date_time, evening_max)
              \/ TimeLE(night_min, date_time) /\ TimeLE(date_time, night_max)
        THEN "noche"
      ELSE "None"   \* the function falls off its end

_is_high_season(fecha) ==
  LET fecha_anio == fecha.year
      range1_min == DMY(15, 12, fecha_anio)
      range1_max == DMY(31, 12, fecha_anio)
      range2_min == DMY(1, 1, fecha_anio)
      range2_max == DMY(3, 3, fecha_anio)
      range3_min == DMY(15, 7, fecha_anio)
      range3_max == DMY(31, 7, fecha_anio)
      range4_min == DMY(11, 9, fecha_anio)
      range4_max == DMY(30, 9, fecha_anio)
  IN  IF \/ DateTimeLE(range1_min, fecha) /\ DateTimeLE(fecha, range1_max)
         \/ DateTimeLE(range2_min, fecha) /\ DateTimeLE(fecha, range2_max)
         \/ DateTimeLE(range3_min, fecha) /\ DateTimeLE(fecha, range3_max)
         \/ DateTimeLE(range4_min, fecha) /\ DateTimeLE(fecha, range4_max)
        THEN 1
      ELSE 0

\* data is a row holding 'Fecha-O' and 'Fecha-I'
_get_min_diff(data) ==
  LET fecha_o == data["Fecha-O"]
      fecha_i == data["Fecha-I"]
  IN  [num |-> TotalSeconds(fecha_o, fecha_i), den |-> 60]

(***************************************************************************)
(* pandas: a DataFrame is [columns |-> the set of column names,            *)
(* rows |-> the sequence of rows], a row a function from column name to    *)
(* cell.  A frame whose column order matters (the returned features and    *)
(* target) holds columns as a sequence and each row as the sequence of its *)
(* cells in that order.                                                    *)
(***************************************************************************)
NRows(df) == Len(df.rows)

Column(df, c) == [i \in 1..NRows(df) |-> df.rows[i][c]]

\* df[c] = series: assigns (adds or replaces) a column
WithColumn(df, c, series) ==
  [columns |-> df.columns \cup {c},
   rows    |-> [i \in 1..NRows(df) |->
                 [k \in df.columns \cup {c} |->
                    IF k = c THEN series[i] ELSE df.rows[i][k]]]]

\* The levels of an integer column as get_dummies writes them into column
\* names: str(level)
LevelNames(series) == [i \in 1..Len(series) |-> ToString(series[i])]

\* get_dummies with the indicator taken from the first row for every row
get_dummies_first_row(series, prefix) ==
  LET n       == Len(series)
      name(v) == prefix \o "_" \o v
  IN  [columns |-> {name(series[i]) : i \in 1..n},
       rows    |-> [i \in 1..n |->
                     [c \in {name(series[k]) : k \in 1..n} |->
                        IF c = name(series[1]) THEN 1 ELSE 0]]]

\* pd.get_dummies(series, prefix=prefix): one indicator column per distinct
\* value of the series, named prefix_value; series holds the values' names.
get_dummies(series, prefix) ==
  LET n       == Len(series)
      name(v) == prefix \o "_" \o v
  IN  [columns |-> {name(series[i]) : i \in 1..n},
       rows    |-> [i \in 1..n |->
                     [c \in {name(series[k]) : k \in 1..n} |->
                        IF c = name(series[i]) THEN 1 ELSE 0]]]

\* pd.concat([a, b, c], axis=1) of frames with the same index and disjoint
\* column names
concat3(a, b, c) ==
  [columns |-> a.columns \cup b.columns \cup c.columns,
   rows    |-> [i \in 1..NRows(a) |->
                 [k \in a.columns \cup b.columns \cup c.columns |->
                    IF k \in a.columns THEN a.rows[i][k]
                    ELSE IF k \in b.columns THEN b.rows[i][k]
                    ELSE c.rows[i][k]]]]

\* df[names]: the named columns, in the order of names
Select(df, names) ==
  [columns |-> names,
   rows    |-> [i \in 1..NRows(df) |->
                 [k \in 1..Len(names) |-> df.rows[i][names[k]]]]]

\* the list with two neighbours exchanged
top_10_features_misordered ==
  << "OPERA_Latin American Wings",
     "MES_10",
     "MES_7",
     "OPERA_Grupo LATAM",
     "MES_12",
     "TIPOVUELO_I",
     "MES_4",
     "MES_11",
     "OPERA_Sky Airline",
     "OPERA_Copa Air" >>

top_10_features ==
  << "OPERA_Latin American Wings",
     "MES_7",
     "MES_10",
     "OPERA_Grupo LATAM",
     "MES_12",
     "TIPOVUELO_I",
     "MES_4",
     "MES_11",
     "OPERA_Sky Airline",
     "OPERA_Copa Air" >>

\* for feature in top_10_features: if feature not in features.columns:
\*     features[feature] = 0
RECURSIVE FillMissing(_, _)
FillMissing(features, k) ==
  IF k > Len(top_10_features) THEN features
  ELSE LET feature == top_10_features[k]
       IN  IF feature \notin features.columns
             THEN FillMissing(
                    WithColumn(features, feature,
                               [i \in 1..NRows(features) |-> 0]),
                    k + 1)
           ELSE FillMissing(features, k + 1)

\* line 33
AddPeriodDay(df) ==
  WithColumn(df, "period_day",
    [i \in 1..NRows(df) |-> _get_period_day(df.rows[i]["Fecha-I"])])

\* line 34
AddHighSeason(df) ==
  WithColumn(df, "high_season",
    [i \in 1..NRows(df) |-> _is_high_season(df.rows[i]["Fecha-I"])])

\* line 38
AddMinDiff(df) ==
  WithColumn(df, "min_diff", [i \in 1..NRows(df) |-> _get_min_diff(df.rows[i])])

\* line 39: np.where(processed_data['min_diff'] > 15, 1, 0)
AddDelay(df) ==
  WithColumn(df, "delay",
    [i \in 1..NRows(df) |-> IF FracGT(df.rows[i]["min_diff"], 15) THEN 1 ELSE 0])

\* lines 37-39
AddLabel(df) ==
  IF "Fecha-O" \in df.columns THEN AddDelay(AddMinDiff(df)) ELSE df

\* lines 33-39: the engineered columns
Engineered(data) == AddLabel(AddHighSeason(AddPeriodDay(data)))

\* lines 42-47
Dummies(processed_data) ==
  concat3(
    get_dummies(Column(processed_data, "OPERA"), "OPERA"),
    get_dummies(Column(processed_data, "TIPOVUELO"), "TIPOVUELO"),
    get_dummies(LevelNames(Column(processed_data, "MES")), "MES"))

\* lines 41-69: one-hot encoding and projection onto the 10 slots
OneHot(processed_data) ==
  Select(FillMissing(Dummies(processed_data), 1), top_10_features)

\* lines 41-75, on the frame lines 33-39 made
Project(processed_data, target_column) ==
  IF {"OPERA", "TIPOVUELO", "MES"} \subseteq processed_data.columns
    THEN IF target_column # "None" /\ target_column \in processed_data.columns
           THEN Returned(
                  [tuple    |-> TRUE,
                   features |-> OneHot(processed_data),
                   target   |-> Select(processed_data, <<target_column>>)])
         ELSE Returned(
                [tuple    |-> FALSE,
                 features |-> OneHot(processed_data),
                 target   |-> "None"])
  ELSE Raised("KeyError")

\* DelayModel.preprocess(data, target_column); target_column "None" is None.
\* A column the code reads and the frame lacks raises KeyError.
preprocess(data, target_column) ==
  IF "Fecha-I" \notin data.columns THEN Raised("KeyError")
  ELSE Project(Engineered(data), target_column)

(***************************************************************************)
(* sklearn.linear_model.LogisticRegression, as DelayModel uses it.  An     *)
(* object is [kind, state, class_weight] and, once fitted, coef and        *)
(* intercept.  state is "new" after construction, "fitted" after a         *)
(* successful fit, and "partial" after a fit that raised on a one-class    *)
(* target (fit validates the data and records the classes before it        *)
(* rejects them).  The optimiser's result is not computed: a successful    *)
(* fit yields any member of FittedParams.                                  *)
(***************************************************************************)
None == [kind |-> "None"]

LogisticRegression(class_weight) ==
  [kind |-> "LogisticRegression", state |-> "new", class_weight |-> class_weight]

FittedParams ==
  { [coef |-> <<0, 0, 0, 0, 0, 0, 0, 0, 0, 0>>, intercept |-> -1],
    [coef |-> <<0, 1, 0, 0, 0, 1, 0, 0, 0, 0>>, intercept |-> -1] }

\* LogisticRegression.fit(X, y): the outcomes [obj |-> the object after the
\* call, ret |-> what the call returned or raised]
LR_fit(lr, X, y) ==
  IF NRows(X) # Len(y) \/ NRows(X) = 0
    THEN {[obj |-> lr, ret |-> Raised("ValueError")]}
  ELSE IF Cardinality({y[i] : i \in 1..Len(y)}) < 2
    THEN {[obj |-> [kind |-> lr.kind, state |-> "partial",
                    class_weight |-> lr.class_weight],
           ret |-> Raised("ValueError")]}
  ELSE {[obj |-> [kind |-> lr.kind, state |-> "fitted",
                  class_weight |-> lr.class_weight,
                  coef |-> p.coef, intercept |-> p.intercept],
         ret |-> Returned("None")] : p \in FittedParams}

RECURSIVE Dot(_, _, _)
Dot(coef, x, k) ==
  IF k = 0 THEN 0 ELSE Dot(coef, x, k - 1) + coef[k] * x[k]

\* LogisticRegression.predict(X): the possible results.  An object that was
\* never fitted raises NotFittedError (a ValueError); one a failed fit left
\* partial raises NotFittedError, or passes the fitted check and fails later
\* (by sklearn's version): ValueError on an empty X, AttributeError on the
\* missing coefficients.  A fitted object rejects an empty X and an X of
\* another width with ValueError.
LR_predict(lr, X) ==
  IF lr.state = "new" THEN {Raised("NotFittedError")}
  ELSE IF lr.state = "partial"
    THEN {Raised("NotFittedError"),
          IF NRows(X) = 0 THEN Raised("ValueError") ELSE Raised("AttributeError")}
  ELSE IF NRows(X) = 0 \/ Len(X.columns) # Len(lr.coef) THEN {Raised("ValueError")}
  ELSE {Returned([i \in 1..NRows(X) |->
                    IF lr.intercept + Dot(lr.coef, X.rows[i], Len(lr.coef)) > 0
                      THEN 1 ELSE 0])}

(***************************************************************************)
(* DelayModel.fit and DelayModel.predict.  self is the value of            *)
(* self._model when the call starts; each yields the set of its outcomes   *)
(* [self |-> self._model when the call ends, ret |-> returned or raised].  *)
(***************************************************************************)
CountLabel(target, v) ==
  Cardinality({i \in 1..NRows(target) : target.rows[i][1] = v})

\* target.values.ravel()
Ravel(target) == [i \in 1..NRows(target) |-> target.rows[i][1]]

\* lines 94-96: self._model = LogisticRegression(class_weight={...})
NewModel(target) ==
  LET n_y0 == CountLabel(target, 0)
      n_y1 == CountLabel(target, 1)
  IN  LogisticRegression(
        [w1 |-> [num |-> n_y0, den |-> NRows(target)],
         w0 |-> [num |-> n_y1, den |-> NRows(target)]])

fit(self, features, target) ==
  IF NRows(target) = 0
    THEN {[self |-> self, ret |-> Raised("ZeroDivisionError")]}
  ELSE {[self |-> o.obj, ret |-> o.ret] :
          o \in LR_fit(NewModel(target), features, Ravel(target))}

\* pd.read_csv("data/data.csv")
read_csv(file) ==
  IF file.exists THEN Returned(file.data) ELSE Raised("FileNotFoundError")

\* line 113: whether predict trains first
NeedsTraining(self) == self.kind = "None"

\* lines 116-117, pre being what preprocess(data, "delay") gave: unpacking
\* a lone features frame into two names raises ValueError
TrainOn(self, pre) ==
  IF pre.status = "raised" THEN {[self |-> self, ret |-> pre]}
  ELSE IF ~pre.value.tuple THEN {[self |-> self, ret |-> Raised("ValueError")]}
  ELSE fit(self, pre.value.features, pre.value.target)

\* lines 115-117, data being what read_csv gave
TrainFrom(self, data) ==
  IF data.status = "raised" THEN {[self |-> self, ret |-> data]}
  ELSE TrainOn(self, preprocess(data.value, "delay"))

\* lines 114-117: the outcomes of the auto-training block
AutoTrain(self, file) == TrainFrom(self, read_csv(file))

\* the outcomes [self, ret, trained, applied]: trained says whether the
\* auto-training block ran, applied names the state of the object line 119
\* called predict on ("" when line 119 was not reached)
\* lines 113-117: [self, ret, trained] as line 119 is reached or the
\* auto-training raised
BeforeApply(self, file) ==
  IF NeedsTraining(self)
    THEN {[self |-> o.self, ret |-> o.ret, trained |-> TRUE] :
            o \in AutoTrain(self, file)}
  ELSE {[self |-> self, ret |-> Returned("None"), trained |-> FALSE]}

\* lines 119-120, a being an outcome of lines 113-117
Apply(a, features) ==
  IF a.ret.status = "raised"
    THEN {[self |-> a.self, ret |-> a.ret, trained |-> a.trained, applied |-> ""]}
  ELSE {[self |-> a.self, ret |-> r, trained |-> a.trained,
         applied |-> a.self.state] : r \in LR_predict(a.self, features)}

predict(self, features, file) ==
  UNION {Apply(a, features) : a \in BeforeApply(self, file)}

(***************************************************************************)
(* challenge/api.py.  A request body is [flights |-> a sequence of flight  *)
(* objects] or lacks the field; a flight object is a function from its     *)
(* keys to their values.  A response is [status_code, body].               *)
(***************************************************************************)
\* the lower limit off by one
validate_mes_from_zero(v) == ~(v < 0 \/ v > 12)

validate_mes(v) == ~(v < 1 \/ v > 12)

validate_tipovuelo(v) == v \in {"I", "N"}

\* class Flight(BaseModel): the three fields are required and validated
Flight(f) ==
  /\ {"OPERA", "TIPOVUELO", "MES"} \subseteq DOMAIN f
  /\ validate_mes(f["MES"])
  /\ validate_tipovuelo(f["TIPOVUELO"])

\* class FlightRequest(BaseModel): flights is required, each item a Flight
FlightRequest(request) ==
  /\ "flights" \in DOMAIN request
  /\ \A i \in 1..Len(request["flights"]) : Flight(request["flights"][i])

\* validation_exception_handler
validation_exception_handler ==
  [status_code |-> 400, body |-> [detail |-> "Validation error"]]

\* lines 60-66: the dict built from a validated flight
FlightDict(flight) ==
  [k \in {"OPERA", "TIPOVUELO", "MES"} |-> flight[k]]

\* pd.DataFrame(list of dicts): the columns are the dicts' keys; of an
\* empty list, a frame with no column and no row
DataFrame(records) ==
  [columns |-> IF Len(records) = 0 THEN {} ELSE DOMAIN records[1],
   rows    |-> records]

\* except ValueError: the exception classes that are ValueErrors
IsValueError(e) == e \in {"ValueError", "NotFittedError"}

\* lines 81-84: the HTTPException a core exception becomes
HTTPException(e) ==
  IF IsValueError(e)
    THEN [status_code |-> 400, body |-> [detail |-> e]]
  ELSE [status_code |-> 500, body |-> [detail |-> "Internal server error"]]

\* lines 60-71: the frame post_predict hands to preprocess
flights_df(request) ==
  WithColumn(
    DataFrame([i \in 1..Len(request["flights"]) |-> FlightDict(request["flights"][i])]),
    "Fecha-I",
    [i \in 1..Len(request["flights"]) |->
       [year |-> 2017, month |-> 1, day |-> 1, hour |-> 12, minute |-> 0, second |-> 0]])

\* lines 77-84, o being an outcome of model.predict
Respond(o) ==
  IF o.ret.status = "raised"
    THEN [self |-> o.self, response |-> HTTPException(o.ret.error), core |-> o.ret.error]
  ELSE [self |-> o.self,
        response |-> [status_code |-> 200, body |-> [predict |-> o.ret.value]],
        core |-> "ok"]

\* lines 74-84, features being what model.preprocess(flights_df) gave
Handle(self, features, file) ==
  IF features.status = "raised"
    THEN {[self |-> self, response |-> HTTPException(features.error),
           core |-> features.error]}
  ELSE {Respond(o) : o \in predict(self, features.value.features, file)}

\* post_predict, for a request that passed validation: the outcomes
\* [self, response, core], core being what the calls into DelayModel did:
\* "ok", or the exception class one of them raised
post_predict(self, request, file) ==
  Handle(self, preprocess(flights_df(request), "None"), file)

\* POST /predict: validation, then the handler
PostPredictOutcomes(self, request, file) ==
  IF ~FlightRequest(request)
    THEN {[self |-> self, response |-> validation_exception_handler,
           core |-> "not called"]}
  ELSE post_predict(self, request, file)

\* lines 20-28: the model the module holds once it is imported
Startup(file) == {o.self : o \in TrainFrom(None, read_csv(file))}

(***************************************************************************)
(* Inputs of the stateful specifications.                                  *)
(***************************************************************************)
MaxTrain == 3

MaxBatch == 2

MaxFlights == 2

NThreads == 2

\* a delayed and an on-time flight
TrainRowKinds ==
  { ("OPERA" :> "Grupo LATAM") @@ ("TIPOVUELO" :> "I") @@ ("MES" :> 7)
      @@ ("Fecha-I" :> [year |-> 2017, month |-> 7, day |-> 1,
                        hour |-> 12, minute |-> 0, second |-> 0])
      @@ ("Fecha-O" :> [year |-> 2017, month |-> 7, day |-> 1,
                        hour |-> 12, minute |-> 16, second |-> 0]),
    ("OPERA" :> "American Airlines") @@ ("TIPOVUELO" :> "N") @@ ("MES" :> 1)
      @@ ("Fecha-I" :> [year |-> 2017, month |-> 1, day |-> 1,
                        hour |-> 12, minute |-> 0, second |-> 0])
      @@ ("Fecha-O" :> [year |-> 2017, month |-> 1, day |-> 1,
                        hour |-> 12, minute |-> 15, second |-> 0]) }

TrainFrames ==
  UNION {{[columns |-> {"OPERA", "TIPOVUELO", "MES", "Fecha-I", "Fecha-O"},
           rows |-> r] : r \in [1..n -> TrainRowKinds]} : n \in 0..MaxTrain}

\* data/data.csv: absent, or holding no row, rows of one class, or both
\* classes
Files ==
  {[exists |-> FALSE]}
  \cup {[exists |-> TRUE, data |-> df] :
          df \in {f \in TrainFrames :
                    \A i \in 1..NRows(f) : \A j \in 1..NRows(f) :
                      i < j => f.rows[i] # f.rows[j]}}

BatchRowKinds ==
  { ("OPERA" :> "Grupo LATAM") @@ ("TIPOVUELO" :> "I") @@ ("MES" :> 7)
      @@ ("Fecha-I" :> [year |-> 2017, month |-> 7, day |-> 1,
                        hour |-> 12, minute |-> 0, second |-> 0]),
    ("OPERA" :> "American Airlines") @@ ("TIPOVUELO" :> "N") @@ ("MES" :> 1)
      @@ ("Fecha-I" :> [year |-> 2017, month |-> 1, day |-> 1,
                        hour |-> 12, minute |-> 0, second |-> 0]) }

Batches ==
  UNION {{[columns |-> {"OPERA", "TIPOVUELO", "MES", "Fecha-I"},
           rows |-> r] : r \in [1..n -> BatchRowKinds]} : n \in 0..MaxBatch}

\* flight objects: valid ones, and one for each way of being invalid
FlightObjects ==
  { ("OPERA" :> "Grupo LATAM") @@ ("TIPOVUELO" :> "I") @@ ("MES" :> 7),
    ("OPERA" :> "American Airlines") @@ ("TIPOVUELO" :> "N") @@ ("MES" :> 1),
    ("OPERA" :> "Copa Air") @@ ("TIPOVUELO" :> "N") @@ ("MES" :> 0),
    ("OPERA" :> "Copa Air") @@ ("TIPOVUELO" :> "N") @@ ("MES" :> 13),
    ("OPERA" :> "Copa Air") @@ ("TIPOVUELO" :> "X") @@ ("MES" :> 7),
    ("TIPOVUELO" :> "N") @@ ("MES" :> 7),
    ("OPERA" :> "Copa Air") @@ ("TIPOVUELO" :> "I") }

Requests ==
  {[other |-> "x"]}
  \cup UNION {{[flights |-> fs] : fs \in [1..n -> FlightObjects]} : n \in 0..MaxFlights}

(***************************************************************************)
(* Spec: one DelayModel, called sequentially.                              *)
(***************************************************************************)
\* what self._model holds: "None", or the state of the object
ModelState(m) == IF m.kind = "None" THEN "None" ELSE m.state

Init ==
  /\ _model = None
  /\ dataset \in Files
  /\ call = [fn |-> "__init__"]
  /\ ret = Returned("None")
  /\ pc = "ready"
  /\ trainRuns = 0

\* model.fit(*model.preprocess(data, "delay")) on some training frame
FitArgs == {preprocess(df, "delay").value : df \in TrainFrames}

Fit ==
  \E args \in FitArgs :
    \E o \in fit(_model, args.features, args.target) :
      /\ _model' = o.self
      /\ call' = [fn |-> "fit", target |-> Ravel(args.target), before |-> ModelState(_model)]
      /\ ret' = o.ret
      /\ UNCHANGED <<dataset, pc, trainRuns>>

\* model.predict(model.preprocess(data)) on some batch
PredictArgs == {preprocess(df, "None").value.features : df \in Batches}

Predict ==
  \E features \in PredictArgs :
    \E o \in predict(_model, features, dataset) :
      /\ _model' = o.self
      /\ call' = [fn |-> "predict", features |-> features,
                  before |-> ModelState(_model), trained |-> o.trained,
                  applied |-> o.applied]
      /\ ret' = o.ret
      /\ UNCHANGED <<dataset, pc, trainRuns>>

Next == Fit \/ Predict

Spec == Init /\ [][Next]_vars

(***************************************************************************)
(* SpecApi: the service.  The module is imported (which trains the model   *)
(* or warns), then requests are served one at a time: the handlers are     *)
(* coroutines that never await, so the event loop runs each to its end.    *)
(***************************************************************************)
InitApi ==
  /\ _model = None
  /\ dataset \in Files
  /\ call = [fn |-> "import"]
  /\ ret = NoValue
  /\ pc = "import"
  /\ trainRuns = 0

Import ==
  /\ pc = "import"
  /\ _model' \in Startup(dataset)
  /\ pc' = "serving"
  /\ UNCHANGED <<dataset, call, ret, trainRuns>>

PostPredict ==
  /\ pc = "serving"
  /\ \E request \in Requests :
       \E o \in PostPredictOutcomes(_model, request, dataset) :
         /\ _model' = o.self
         /\ call' = [fn |-> "post_predict", request |-> request, core |-> o.core]
         /\ ret' = Returned(o.response)
  /\ UNCHANGED <<dataset, pc, trainRuns>>

GetHealth ==
  /\ pc = "serving"
  /\ call' = [fn |-> "get_health"]
  /\ ret' = Returned([status_code |-> 200, body |-> [status |-> "OK"]])
  /\ UNCHANGED <<_model, dataset, pc, trainRuns>>

NextApi == Import \/ PostPredict \/ GetHealth

SpecApi == InitApi /\ [][NextApi]_vars

(***************************************************************************)
(* SpecConc: NThreads threads call predict on one DelayModel that was      *)
(* never fitted, with a data/data.csv that holds both classes.  A thread   *)
(* switch can fall between any two lines; LogisticRegression's own fit     *)
(* and predict are taken as one step each.                                 *)
(***************************************************************************)
Threads == 1..NThreads

GoodFile ==
  [exists |-> TRUE,
   data |-> [columns |-> {"OPERA", "TIPOVUELO", "MES", "Fecha-I", "Fecha-O"},
             rows |-> CHOOSE r \in [1..2 -> TrainRowKinds] : r[1] # r[2]]]

GoodTraining == preprocess(GoodFile.data, "delay").value

InitConc ==
  /\ _model = None
  /\ dataset = GoodFile
  /\ call \in {[fn |-> "predict", features |-> f] : f \in {x \in PredictArgs : NRows(x) = 1}}
  /\ ret = [t \in Threads |-> NoValue]
  /\ pc = [t \in Threads |-> "L113"]
  /\ trainRuns = 0

\* line 113: if self._model is None
L113(t) ==
  /\ pc[t] = "L113"
  /\ pc' = [pc EXCEPT ![t] = IF NeedsTraining(_model) THEN "L115" ELSE "L119"]
  /\ UNCHANGED <<_model, dataset, call, ret, trainRuns>>

\* lines 115-116: load and preprocess the dataset (local to the thread)
L115(t) ==
  /\ pc[t] = "L115"
  /\ trainRuns' = trainRuns + 1
  /\ pc' = [pc EXCEPT ![t] = "L94"]
  /\ UNCHANGED <<_model, dataset, call, ret>>

\* fit, lines 90-96: self._model = LogisticRegression(...)
L94(t) ==
  /\ pc[t] = "L94"
  /\ _model' = NewModel(GoodTraining.target)
  /\ pc' = [pc EXCEPT ![t] = "L98"]
  /\ UNCHANGED <<dataset, call, ret, trainRuns>>

\* fit, line 98: self._model.fit(...), on the object self._model holds now
L98(t) ==
  /\ pc[t] = "L98"
  /\ \E o \in LR_fit(_model, GoodTraining.features, Ravel(GoodTraining.target)) :
       /\ _model' = o.obj
       /\ pc' = [pc EXCEPT ![t] = IF o.ret.status = "raised" THEN "done" ELSE "L119"]
       /\ ret' = IF o.ret.status = "raised" THEN [ret EXCEPT ![t] = o.ret] ELSE ret
  /\ UNCHANGED <<dataset, call, trainRuns>>

\* lines 119-120: self._model.predict(features)
L119(t) ==
  /\ pc[t] = "L119"
  /\ \E r \in LR_predict(_model, call.features) :
       ret' = [ret EXCEPT ![t] = r]
  /\ pc' = [pc EXCEPT ![t] = "done"]
  /\ UNCHANGED <<_model, dataset, call, trainRuns>>

NextConc == \E t \in Threads : L113(t) \/ L115(t) \/ L94(t) \/ L98(t) \/ L119(t)

SpecConc == InitConc /\ [][NextConc]_vars

(***************************************************************************)
(* The pure part, exercised call by call: Init draws one call with its     *)
(* arguments, the action runs it.                                          *)
(***************************************************************************)
MaxRows == 2

DateTime(y, mo, d, h, mi, s) ==
  [year |-> y, month |-> mo, day |-> d, hour |-> h, minute |-> mi, second |-> s]

\* Times of day: every minute of the day, at four seconds of the minute.
PeriodInputs ==
  {DateTime(2017, 1, 1, h, mi, s) : h \in 0..23, mi \in 0..59, s \in {0, 1, 30, 59}}

\* Every day of a common and of a leap year, at the start, just after the
\* start, at noon and at the last second of the day.
SeasonInputs ==
  UNION {
    UNION {
      {DateTime(y, mo, d, t[1], t[2], t[3]) :
         d \in 1..DaysInMonth(y, mo),
         t \in {<<0, 0, 0>>, <<0, 0, 1>>, <<12, 0, 0>>, <<23, 59, 59>>}} :
      mo \in 1..12} :
    y \in {2023, 2024}}

\* Rows that differ in their categories: every listed level and an unlisted
\* one of each field, alone and combined.
FechaI0 == DateTime(2017, 1, 1, 12, 0, 0)

FechaO0 == DateTime(2017, 1, 1, 12, 16, 0)

Categories ==
  {<<o, "N", 1>> :
     o \in {"Latin American Wings", "Grupo LATAM", "Sky Airline", "Copa Air",
            "American Airlines"}}
  \cup {<<"American Airlines", "I", 1>>}
  \cup {<<"American Airlines", "N", m>> : m \in 2..12}
  \cup {<<"Grupo LATAM", "I", 7>>, <<"Copa Air", "I", 12>>, <<"Sky Airline", "I", 4>>,
        <<"Latin American Wings", "I", 10>>, <<"Grupo LATAM", "N", 11>>}

\* Scheduled and actual datetimes around the 15-minute threshold, within a
\* day and across the end of a year.
FechaIs == {FechaI0, DateTime(2017, 12, 31, 23, 50, 0)}

FechaOs ==
  {DateTime(2017, 1, 1, 11, 45, 0), DateTime(2017, 1, 1, 12, 15, 0),
   DateTime(2017, 1, 1, 12, 15, 1), FechaO0,
   DateTime(2018, 1, 1, 0, 5, 0), DateTime(2018, 1, 1, 0, 6, 0)}

Row(c, fi) ==
  ("OPERA" :> c[1]) @@ ("TIPOVUELO" :> c[2]) @@ ("MES" :> c[3]) @@ ("Fecha-I" :> fi)

RowO(c, fi, fo) == Row(c, fi) @@ ("Fecha-O" :> fo)

InferenceRows ==
  {Row(c, FechaI0) : c \in Categories}
  \cup {Row(<<"Grupo LATAM", "I", 7>>, fi) : fi \in FechaIs}

TrainingRows ==
  {RowO(c, FechaI0, FechaO0) :
     c \in {<<"American Airlines", "N", 1>>, <<"Sky Airline", "N", 1>>,
            <<"American Airlines", "N", 4>>}}
  \cup {RowO(<<"Grupo LATAM", "I", 7>>, fi, fo) : fi \in FechaIs, fo \in FechaOs}

Frames(columns, rows) ==
  UNION {{[columns |-> columns, rows |-> r] : r \in [1..n -> rows]} : n \in 0..MaxRows}

PreprocessInputs ==
  Frames({"OPERA", "TIPOVUELO", "MES", "Fecha-I"}, InferenceRows)
  \cup Frames({"OPERA", "TIPOVUELO", "MES", "Fecha-I", "Fecha-O"}, TrainingRows)

PureCalls ==
  {[fn |-> "_get_period_day", date |-> d] : d \in PeriodInputs}
  \cup {[fn |-> "_is_high_season", fecha |-> d] : d \in SeasonInputs}
  \cup {[fn |-> "preprocess", data |-> df, target_column |-> tc] :
          df \in PreprocessInputs, tc \in {"None", "delay"}}

InitPure ==
  /\ call \in PureCalls
  /\ ret = NoValue
  /\ _model = [kind |-> "None"]
  /\ dataset = [exists |-> FALSE]
  /\ pc = <<>>
  /\ trainRuns = 0

Call_get_period_day ==
  /\ ret.status = "pending"
  /\ call.fn = "_get_period_day"
  /\ ret' = Returned(_get_period_day(call.date))
  /\ UNCHANGED <<_model, dataset, call, pc, trainRuns>>

Call_is_high_season ==
  /\ ret.status = "pending"
  /\ call.fn = "_is_high_season"
  /\ ret' = Returned(_is_high_season(call.fecha))
  /\ UNCHANGED <<_model, dataset, call, pc, trainRuns>>

Call_preprocess ==
  /\ ret.status = "pending"
  /\ call.fn = "preprocess"
  /\ ret' = preprocess(call.data, call.target_column)
  /\ UNCHANGED <<_model, dataset, call, pc, trainRuns>>

NextPure == Call_get_period_day \/ Call_is_high_season \/ Call_preprocess

SpecPure == InitPure /\ [][NextPure]_vars

(***************************************************************************)
(* The claims.                                                             *)
(***************************************************************************)
PreprocessReturned ==
  call.fn = "preprocess" /\ ret.status = "returned"

C2_OneTrainingRun ==
  (\A t \in Threads : pc[t] = "done") =>
    /\ trainRuns = 1
    /\ \A t \in Threads : ret[t].status = "returned"

DegenerateTarget(y) == Cardinality({y[i] : i \in 1..Len(y)}) < 2

\* C3: a fit on an empty or one-class target raises, and does not leave
\* self._model holding an unfitted object that predict will use.
C3_DegenerateFitFails ==
  (call.fn = "fit" /\ DegenerateTarget(call.target)) =>
    /\ ret.status = "raised"
    /\ ModelState(_model) \in {"None", "fitted"}

ClaimedPeriod(date) ==
  IF date.hour \in 5..11 THEN "mañana"
  ELSE IF date.hour \in 12..18 THEN "tarde"
  ELSE "noche"

\* C4: every valid time of day gets its label: morning from 05:00 through
\* 11:59, afternoon from 12:00 through 18:59, night otherwise; never no
\* label.
C4_PeriodTotal ==
  (call.fn = "_get_period_day" /\ ret.status = "returned") =>
    ret.value = ClaimedPeriod(call.date)

ClaimedHighSeason(fecha) ==
  IF \/ fecha.month = 12 /\ fecha.day >= 15
     \/ fecha.month \in {1, 2}
     \/ fecha.month = 3 /\ fecha.day <= 3
     \/ fecha.month = 7 /\ fecha.day >= 15
     \/ fecha.month = 9 /\ fecha.day \in 11..30
    THEN 1
  ELSE 0

\* C5: _is_high_season is 1 exactly on the calendar days Dec 15-31,
\* Jan 1-Mar 3, Jul 15-31 and Sep 11-30, at any time of those days.
C5_HighSeasonDays ==
  (call.fn = "_is_high_season" /\ ret.status = "returned") =>
    ret.value = ClaimedHighSeason(call.fecha)

ClaimedDelay(row) ==
  IF TotalSeconds(row["Fecha-O"], row["Fecha-I"]) > 15 * 60 THEN 1 ELSE 0

\* C6: with Fecha-O present, each row's delay is 1 exactly when Fecha-O is
\* more than 15 minutes after Fecha-I (15 minutes give 0, 16 give 1, an
\* early departure gives 0), and that is the target returned; with Fecha-O
\* absent neither min_diff nor delay is made and only features are returned.
C6_DelayThreshold ==
  PreprocessReturned =>
    IF "Fecha-O" \in call.data.columns
      THEN /\ \A i \in 1..Len(call.data.rows) :
                LET row == call.data.rows[i]
                    delay == Engineered(call.data).rows[i]["delay"]
                IN  /\ delay = ClaimedDelay(row)
                    /\ (row["Fecha-I"] = FechaI0 /\ row["Fecha-O"] = DateTime(2017, 1, 1, 12, 15, 0))
                         => delay = 0
                    /\ (row["Fecha-I"] = FechaI0 /\ row["Fecha-O"] = DateTime(2017, 1, 1, 12, 16, 0))
                         => delay = 1
                    /\ (row["Fecha-I"] = FechaI0 /\ row["Fecha-O"] = DateTime(2017, 1, 1, 11, 45, 0))
                         => delay = 0
           /\ call.target_column = "delay" =>
                /\ ret.value.tuple
                /\ ret.value.target.columns = <<"delay">>
                /\ Len(ret.value.target.rows) = Len(call.data.rows)
                /\ \A i \in 1..Len(call.data.rows) :
                     ret.value.target.rows[i] = <<ClaimedDelay(call.data.rows[i])>>
    ELSE /\ ~ret.value.tuple
         /\ Engineered(call.data).columns \cap {"min_diff", "delay"} = {}

\* A training batch holding a flight 15 minutes late and one 16 minutes
\* late has been preprocessed with the target asked for.
C6_Witness ==
  /\ PreprocessReturned
  /\ call.target_column = "delay"
  /\ "Fecha-O" \in call.data.columns
  /\ Len(call.data.rows) = 2
  /\ call.data.rows[1]["Fecha-O"] = DateTime(2017, 1, 1, 12, 15, 0)
  /\ call.data.rows[2]["Fecha-O"] = DateTime(2017, 1, 1, 12, 16, 0)
  /\ call.data.rows[1]["Fecha-I"] = FechaI0
  /\ call.data.rows[2]["Fecha-I"] = FechaI0
  /\ ret.value.target.rows = << <<0>>, <<1>> >>

\* C7: once self._model holds a fitted object, every later fit or predict
\* call, failing or not, leaves it holding a fitted object.
C7_NeverUnfitted ==
  [][ModelState(_model) = "fitted" => ModelState(_model') = "fitted"]_vars

\* C8: a predict call that starts without fitted parameters trains first,
\* and no predict call applies an object that is not fitted.
C8_PredictTrainsFirst ==
  call.fn = "predict" =>
    /\ call.before # "fitted" => call.trained
    /\ call.applied \in {"", "fitted"}

ClaimedValid(request) ==
  /\ "flights" \in DOMAIN request
  /\ \A i \in 1..Len(request["flights"]) :
       LET f == request["flights"][i]
       IN  /\ {"OPERA", "TIPOVUELO", "MES"} \subseteq DOMAIN f
           /\ f["MES"] \in 1..12
           /\ f["TIPOVUELO"] \in {"I", "N"}

\* C9: POST /predict answers 400 to a request that fails validation, without
\* calling the core; 400 when the core raises a ValueError; 500 when it
\* raises anything else; and 200 with one 0/1 integer per flight when the
\* core calls succeed.
C9_StatusCodes ==
  call.fn = "post_predict" =>
    LET response == ret.value
        request  == call.request
    IN  IF ~ClaimedValid(request)
          THEN response.status_code = 400 /\ call.core = "not called"
        ELSE /\ call.core # "not called"
             /\ call.core \in {"ValueError", "NotFittedError"} =>
                  response.status_code = 400
             /\ call.core \notin {"ok", "ValueError", "NotFittedError"} =>
                  response.status_code = 500
             /\ call.core = "ok" =>
                  /\ response.status_code = 200
                  /\ DOMAIN response.body = {"predict"}
                  /\ Len(response.body.predict) = Len(request["flights"])
                  /\ \A i \in 1..Len(response.body.predict) :
                       response.body.predict[i] \in {0, 1}

\* A request of two valid flights was answered 200 with the predictions 1
\* and 0.
C9_Witness ==
  /\ call.fn = "post_predict"
  /\ ret.value.status_code = 200
  /\ Len(call.request["flights"]) = 2
  /\ ret.value.body.predict = <<1, 0>>

SlotField ==
  << "OPERA", "MES", "MES", "OPERA", "MES", "TIPOVUELO", "MES", "MES", "OPERA", "OPERA" >>

SlotLevel ==
  << "Latin American Wings", 7, 10, "Grupo LATAM", 12, "I", 4, 11, "Sky Airline",
     "Copa Air" >>

\* C10: the cell of row i and slot k is 1 exactly when row i's own OPERA,
\* TIPOVUELO or MES (the slot's field) equals the slot's category, whatever
\* the row's dates and the other rows of the batch; a row with no listed
\* category is all zeros.
C10_CellsFollowOwnRow ==
  PreprocessReturned =>
    \A i \in 1..Len(call.data.rows) :
      \A k \in 1..10 :
        ret.value.features.rows[i][k] =
          IF call.data.rows[i][SlotField[k]] = SlotLevel[k] THEN 1 ELSE 0

\* A batch whose first row is a Grupo LATAM flight and whose second row has
\* no listed category has been preprocessed: the second row is all zeros.
C10_Witness ==
  /\ PreprocessReturned
  /\ Len(call.data.rows) = 2
  /\ call.data.rows[1]["OPERA"] = "Grupo LATAM"
  /\ call.data.rows[2]["OPERA"] = "American Airlines"
  /\ call.data.rows[2]["TIPOVUELO"] = "N"
  /\ call.data.rows[2]["MES"] = 1
  /\ ret.value.features.rows[1][4] = 1
  /\ ret.value.features.rows[2] = <<0, 0, 0, 0, 0, 0, 0, 0, 0, 0>>

====
